---------------------------- MODULE Spec2Model ----------------------------
(***************************************************************************)
(* Model of transcoderexpress (src/src/main.rs): a directory watcher whose *)
(* callback sends every path of a creation event on an unbounded mpsc      *)
(* channel, and one consumer thread that receives the paths one at a time  *)
(* and runs ffmpeg on each, blocking until the child exits.                *)
(*                                                                         *)
(* Paths are sequences of one-character strings so that file_name() and    *)
(* split('.') are computed, not assumed.  Panics unwind the panicking      *)
(* thread (the default profile): a panic of the main thread ends the       *)
(* process with status 101, a panic of the consumer thread ends only that  *)
(* thread and drops its Receiver.                                          *)
(***************************************************************************)
EXTENDS Naturals, Sequences, FiniteSets, Bags, TLC

\* ------------------------------------------------------------------ bounds
\* Number of results the watch subsystem delivers to the callback.
MaxEvents == 3
\* Total number of paths carried by the delivered events.
MaxJobs == 3
\* Length of the paths enumerated for the path-derivation specification.
MaxLen == 5
\* Number of receive errors followed in the closed-channel specification.
MaxRecvErrors == 2

\* ------------------------------------------------------------- characters
\* A byte sequence that is not valid UTF-8 (OsStr::to_str gives None).
BadByte == "?"
Chars == {"a", "b", ".", "/", BadByte}

\* Option<T>: None, or Some(x).
None == <<>>
Some(x) == <<x>>
\* "No value yet" for the string-valued variables.
Nil == "nil"

\* ------------------------------------------------------------------ paths
PathA == <<"d", "/", "a", ".", "b">>
PathB == <<"a", ".", "c">>
PathBad == <<"a", BadByte>>
\* The paths the modelled filesystem events report.
Paths == {PathA, PathB, PathBad}

\* The -o argument (main.rs:98).
OutputDir == <<"o">>

\* "_transcoded.wav" (main.rs:36).
Suffix == <<"_", "t", "r", "a", "n", "s", "c", "o", "d", "e", "d", ".", "w", "a", "v">>

SeqsUpTo(S, n) == UNION {[1..k -> S] : k \in 0..n}

\* ------------------------------------------------------- string functions
\* Position of the first occurrence of c in s, or Len(s)+1 when there is none.
FirstIndex(s, c) ==
    IF \E i \in 1..Len(s) : s[i] = c
    THEN CHOOSE i \in 1..Len(s) : s[i] = c /\ \A j \in 1..(i-1) : s[j] # c
    ELSE Len(s) + 1

\* str::split(c): the pieces of s between occurrences of c (never empty:
\* splitting "" gives one empty piece).
RECURSIVE Split(_, _)
Split(s, c) ==
    LET i == FirstIndex(s, c) IN
    IF i > Len(s) THEN <<s>>
    ELSE <<SubSeq(s, 1, i-1)>> \o Split(SubSeq(s, i+1, Len(s)), c)

\* OsStr::to_str / Path::to_str: None unless the bytes are valid UTF-8.
ToStr(path) ==
    IF \E i \in 1..Len(path) : path[i] = BadByte THEN None ELSE Some(path)

\* Path::components, without the root and current-directory markers: empty
\* components (repeated or trailing separators) and "." are normalised away.
Components(path) ==
    SelectSeq(Split(path, "/"), LAMBDA x : x # <<>> /\ x # <<".">>)

\* Path::file_name: the last component when it is a normal one; None when the
\* path has no component or ends in "..".
FileName(path) ==
    LET comps == Components(path) IN
    IF comps = <<>> THEN None
    ELSE IF comps[Len(comps)] = <<".", ".">> THEN None
    ELSE Some(comps[Len(comps)])

\* filename.split('.').next().unwrap() taking the text after the LAST dot out
\* (what Path::file_stem would do): a plausible slip.
StemLastDot(filename) ==
    LET pieces == Split(filename, ".") IN
    IF Len(pieces) = 1 THEN filename
    ELSE SubSeq(filename, 1, Len(filename) - Len(pieces[Len(pieces)]) - 1)

\* filename.split('.').next().unwrap(): the text before the first '.'.
Stem(filename) == Split(filename, ".")[1]

\* The output placed under the source's directory part, mirroring the input
\* tree below the output directory.
OutFileMirrorsDir(path, outpath) ==
    LET name == FileName(path)[1]
        dir  == SubSeq(path, 1, Len(path) - Len(name))
    IN  outpath \o <<"/">> \o dir \o Stem(name) \o Suffix

\* format!("{}/{}_transcoded.wav", outpath, filename)
OutFile(path, outpath) ==
    outpath \o <<"/">> \o Stem(FileName(path)[1]) \o Suffix


\* ------------------------------------------------------------------ state
VARIABLES
    mainPc,       \* main(): "create_watcher", "watch", "spawn", "idle", "exited"
    senders,      \* number of live Sender handles of the channel
    unreadable,   \* reported paths that are not (or no longer) a readable file
    exitCode,     \* Some(exit status) once mainPc = "exited", else None
    watchResult,  \* result of watcher.watch(): Nil, "Ok" or "Err"
    nEvents,      \* results delivered to the watcher callback so far
    lastKind,     \* kind of the last delivered result (Nil before the first)
    pending,      \* paths of the event being handled that are not yet sent
    queue,        \* the channel's buffer: paths sent and not yet received
    workerPc,     \* consumer thread: "unspawned", "recv", "running", "dead"
    workerPanic,  \* panic message of the consumer thread, else Nil
    cur,          \* Some(path the consumer is transcoding), else None
    outfile,      \* Some(output argument of the running ffmpeg), else None
    inflight,     \* number of ffmpeg child processes that have not exited
    inputMissing, \* whether the input of the last ffmpeg launched was unreadable
    lastStatus,   \* Some(Output of the last ffmpeg child that exited), else None
    files,        \* output files written: set of [name, from] records
    watcherLog,   \* log lines of handle_event, in order
    workerLog,    \* log lines of consumer_thread and transcoder, in order
    reported,     \* history: bag of the paths reported by creation events
    sent          \* history: paths accepted by the channel, in order

vars == <<mainPc, senders, unreadable, exitCode, watchResult, nEvents,
          lastKind, pending, queue, workerPc, workerPanic, cur, outfile,
          inflight, inputMissing, lastStatus, files, watcherLog, workerLog,
          reported, sent>>

mainVars == <<mainPc, senders, exitCode, watchResult>>
watcherVars == <<nEvents, lastKind, pending, watcherLog, reported, sent>>
workerVars == <<workerPc, workerPanic, cur, outfile, inflight, inputMissing,
                lastStatus, files, workerLog>>

\* ------------------------------------------------------------------- logs
Info(msg, arg) == [level |-> "info", msg |-> msg, arg |-> arg]
Error(msg, arg) == [level |-> "error", msg |-> msg, arg |-> arg]

\* notify::EventKind
EventKinds == {"Any", "Access", "Create", "Modify", "Remove", "Other"}

\* std::process::Output of a child that ran: exit status and captured stderr.
Outputs == {[success |-> TRUE, stderr |-> ""],
            [success |-> FALSE, stderr |-> "No such file or directory"]}

RECURSIVE SeqToBag(_)
SeqToBag(s) ==
    IF s = <<>> THEN EmptyBag ELSE SetToBag({Head(s)}) (+) SeqToBag(Tail(s))

\* ---------------------------------------------------------------- channel
ProcessAlive == mainPc # "exited"

\* The channel being set up only when the consumer is started: until then
\* there is no Receiver for the watcher's sends.
RxAliveOnceSpawned == workerPc \notin {"unspawned", "dead"}

\* The Receiver staying with main, which lends it to the consumer thread: it
\* outlives a panic of that thread.
RxHeldByMain == TRUE

\* The Receiver is created in main (line 107), moved into the consumer thread
\* (line 120) and dropped when that thread unwinds.
RxAlive == workerPc # "dead"

\* The Sender is moved into the watcher callback (line 109); the watcher is a
\* local of main, which never returns once the watcher has been created.
TxAlive == senders > 0

\* A bounded channel of capacity 1 (sync_channel(1)): send waits for room.
ChannelHasRoomBounded(q) == Len(q) < 1

\* channel() is asynchronous and unbounded: send never waits for room.
ChannelHasRoom(q) == Len(q) >= 0

\* Receive that leaves the message in the buffer, to be received again.
DequeuePeek(q) == [job |-> Head(q), rest |-> q]

\* Receive taking the newest message first.
DequeueNewest(q) == [job |-> q[Len(q)], rest |-> SubSeq(q, 1, Len(q) - 1)]

\* rx.recv() on a non-empty channel: the oldest message.
Dequeue(q) == [job |-> Head(q), rest |-> Tail(q)]

\* ------------------------------------------------------------------- Init
Init ==
    /\ mainPc = "create_watcher"
    /\ senders = 1
    /\ unreadable = {}
    /\ exitCode = None
    /\ watchResult = Nil
    /\ nEvents = 0
    /\ lastKind = Nil
    /\ pending = <<>>
    /\ queue = <<>>
    /\ workerPc = "unspawned"
    /\ workerPanic = Nil
    /\ cur = None
    /\ outfile = None
    /\ inflight = 0
    /\ inputMissing = FALSE
    /\ lastStatus = None
    /\ files = {}
    /\ watcherLog = <<>>
    /\ workerLog = <<>>
    /\ reported = EmptyBag
    /\ sent = <<>>

\* ------------------------------------------------------------------- main
\* recommended_watcher(..).expect("Failed to create watcher"): on Ok the
\* callback, and the Sender in it, belongs to the watcher; on Err the callback
\* is dropped and main panics, which ends the process.
CreateWatcher ==
    /\ mainPc = "create_watcher"
    /\ \E ok \in BOOLEAN :
          IF ok THEN /\ mainPc' = "watch"
                     /\ UNCHANGED <<exitCode, senders>>
                ELSE /\ mainPc' = "exited"
                     /\ senders' = 0
                     /\ exitCode' = Some(101)
    /\ UNCHANGED <<watchResult, queue, unreadable>>
    /\ UNCHANGED <<watcherVars, workerVars>>

\* let _ = watcher.watch(..); info!("Watching directory: ..")
Watch ==
    /\ mainPc = "watch"
    /\ \E res \in {"Ok", "Err"} : watchResult' = res
    /\ mainPc' = "spawn"
    /\ UNCHANGED <<exitCode, queue, senders, unreadable>>
    /\ UNCHANGED <<watcherVars, workerVars>>

\* The watcher going out of scope once the setup is done: its callback and
\* the Sender in it are dropped.
WatcherDroppedAfterSetup(n) == 0

\* `watcher` is a local of main that lives through the idle loop (109-126):
\* the Sender in its callback is kept.
WatcherKept(n) == n

\* thread::spawn(move || consumer_thread(&rx, &output_dir)); then the idle loop
SpawnConsumer ==
    /\ mainPc = "spawn"
    /\ mainPc' = "idle"
    /\ workerPc' = "recv"
    /\ senders' = WatcherKept(senders)
    /\ UNCHANGED <<exitCode, watchResult, queue, unreadable>>
    /\ UNCHANGED <<workerPanic, cur, outfile, inflight, inputMissing,
                   lastStatus, files, workerLog>>
    /\ UNCHANGED watcherVars

\* ---------------------------------------------------------------- watcher
\* if let notify::Event { kind: Create(_), .. } with Modify matching too.
IsCreateOrModify(kind) == kind \in {"Create", "Modify"}

\* if let notify::Event { kind: Create(_), paths, .. } = event
IsCreate(kind) == kind = "Create"

\* The handler keeping only the paths that are readable files.
ReadablePathsOnly(paths, missing) ==
    SelectSeq(paths, LAMBDA p : p \notin missing)

\* `for path in paths`: every path of the event, with no look at the
\* filesystem (85).
PathsToSend(paths, missing) == paths

\* The watcher callback is invoked with a result: Err(e) is printed, Ok(event)
\* goes to handle_event, which takes the paths of a creation event and nothing
\* of any other event.
EventArrives ==
    /\ ProcessAlive
    /\ TxAlive
    /\ watchResult = "Ok"
    /\ pending = <<>>
    /\ nEvents < MaxEvents
    /\ nEvents' = nEvents + 1
    /\ \/ /\ lastKind' = "Error"
          /\ UNCHANGED <<pending, reported>>
       \/ \E kind \in EventKinds :
          \E paths \in SeqsUpTo(Paths, MaxJobs - BagCardinality(reported)) :
             /\ lastKind' = kind
             /\ IF IsCreate(kind)
                THEN /\ pending' = PathsToSend(paths, unreadable)
                     /\ reported' = reported (+) SeqToBag(paths)
                ELSE UNCHANGED <<pending, reported>>
    /\ UNCHANGED <<queue, watcherLog, sent, unreadable>>
    /\ UNCHANGED <<mainVars, workerVars>>

\* The loop staying on a path whose send failed, to send it again.
RetryFailedSend(p) == IF RxAlive THEN Tail(p) ELSE p

\* `for path in paths` moves on to the next path after the send, whether it
\* succeeded or not (85-90).
RemainingAfterSend(p) == Tail(p)

\* One iteration of `for path in paths`: log, send, log the error if any.
SendPath ==
    /\ ProcessAlive
    /\ TxAlive
    /\ pending # <<>>
    /\ ChannelHasRoom(queue)
    /\ LET path == Head(pending)
           added == Info("File created, adding to queue", path)
       IN  /\ pending' = RemainingAfterSend(pending)
           /\ IF RxAlive
              THEN /\ queue' = Append(queue, path)
                   /\ sent' = Append(sent, path)
                   /\ watcherLog' = Append(watcherLog, added)
              ELSE /\ watcherLog' = watcherLog \o
                                    <<added, Error("Error sending path", path)>>
                   /\ UNCHANGED <<queue, sent>>
    /\ UNCHANGED <<nEvents, lastKind, reported, unreadable>>
    /\ UNCHANGED <<mainVars, workerVars>>

\* ----------------------------------------------------------------- worker
\* The consumer receiving while an ffmpeg it started is still running.
ReadyToRecvEarly(pc) == pc \in {"recv", "running"}

\* The consumer is at rx.recv(): Command::output() has returned.
ReadyToRecv(pc) == pc = "recv"

\* The else branch treating a failed transcode as fatal.
ReturnsOnSuccessOnly(out) == out.success

\* transcoder() returns after logging, whichever branch was taken (54-61).
TranscoderReturns(out) == TRUE

\* rx.recv() gives a path: log it, derive the output file, launch ffmpeg.
\* unwrap() panics on a path that is not UTF-8 or has no file name, expect()
\* panics when ffmpeg cannot be launched.
Recv ==
    /\ ProcessAlive
    /\ ReadyToRecv(workerPc)
    /\ queue # <<>>
    /\ LET path == Dequeue(queue).job IN
       /\ queue' = Dequeue(queue).rest
       /\ workerLog' = Append(workerLog, Info("Processing file", path))
       /\ IF ToStr(path) = None \/ FileName(path) = None
          THEN /\ workerPc' = "dead"
               /\ workerPanic' = "called Option::unwrap() on a None value"
               /\ UNCHANGED <<cur, outfile, inflight, inputMissing>>
          ELSE \E launched \in BOOLEAN :
                  IF launched
                  THEN /\ workerPc' = "running"
                       /\ cur' = Some(path)
                       /\ outfile' = Some(OutFile(path, OutputDir))
                       /\ inflight' = inflight + 1
                       /\ inputMissing' = (path \in unreadable)
                       /\ UNCHANGED workerPanic
                  ELSE /\ workerPc' = "dead"
                       /\ workerPanic' = "Failed to execute ffmpeg"
                       /\ UNCHANGED <<cur, outfile, inflight, inputMissing>>
    /\ UNCHANGED <<lastStatus, files, unreadable>>
    /\ UNCHANGED <<mainVars, watcherVars>>

\* ffmpeg -i path ...: a child whose input cannot be read exits non-zero; any
\* other child may succeed or fail.
ChildOutputs(missing) ==
    IF missing THEN {out \in Outputs : ~out.success} ELSE Outputs

\* The ffmpeg child exits: output() returns, the outcome is logged, the
\* consumer logs the end of the job and loops.
ChildExit ==
    /\ ProcessAlive
    /\ workerPc = "running"
    /\ \E out \in ChildOutputs(inputMissing) :
          /\ inflight' = inflight - 1
          /\ lastStatus' = Some(out)
          /\ files' = IF out.success
                      THEN {f \in files : f.name # outfile[1]}
                               \cup {[name |-> outfile[1], from |-> cur[1]]}
                      ELSE files
          /\ IF TranscoderReturns(out)
             THEN /\ workerLog' = workerLog \o
                       <<IF out.success
                         THEN Info("Transcoding successful, saved to", outfile[1])
                         ELSE Error("Transcoding failed", out.stderr),
                         Info("Done processing file", cur[1])>>
                  /\ workerPc' = "recv"
                  /\ UNCHANGED workerPanic
             ELSE /\ workerLog' = workerLog
                  /\ workerPc' = "dead"
                  /\ workerPanic' = "transcoding failed"
    /\ cur' = None
    /\ outfile' = None
    /\ UNCHANGED <<queue, inputMissing, unreadable>>
    /\ UNCHANGED <<mainVars, watcherVars>>

\* rx.recv() gives Err: every Sender is gone and the buffer is empty.  The
\* error is logged and the loop goes back to rx.recv().
RecvError ==
    /\ ProcessAlive
    /\ ReadyToRecv(workerPc)
    /\ queue = <<>>
    /\ ~TxAlive
    /\ Len(SelectSeq(workerLog,
                     LAMBDA e : e.msg = "Error receiving file path."))
          < MaxRecvErrors
    /\ workerLog' = Append(workerLog, Error("Error receiving file path.", ""))
    /\ UNCHANGED <<queue, workerPc, workerPanic, cur, outfile, inflight,
                   inputMissing, lastStatus, files, unreadable>>
    /\ UNCHANGED <<mainVars, watcherVars>>

\* ------------------------------------------------------------ filesystem
\* A reported path stops being a readable file (the file is renamed away or
\* deleted), or never was one (a directory was created).
PathVanishes ==
    /\ ProcessAlive
    /\ \E p \in BagToSet(reported) \ unreadable :
          unreadable' = unreadable \cup {p}
    /\ UNCHANGED queue
    /\ UNCHANGED <<mainVars, watcherVars, workerVars>>

\* ---------------------------------------------------------- specification
Next ==
    \/ CreateWatcher
    \/ Watch
    \/ SpawnConsumer
    \/ EventArrives
    \/ SendPath
    \/ PathVanishes
    \/ Recv
    \/ ChildExit

Spec == Init /\ [][Next]_vars

TypeOK ==
    /\ mainPc \in {"create_watcher", "watch", "spawn", "idle", "exited"}
    /\ workerPc \in {"unspawned", "recv", "running", "dead"}
    /\ nEvents \in 0..MaxEvents
    /\ inflight \in Nat


\* The scheduler runs every thread that can take a step, and every ffmpeg
\* child that was started exits.
FairSpec ==
    /\ Spec
    /\ WF_vars(CreateWatcher)
    /\ WF_vars(Watch)
    /\ WF_vars(SpawnConsumer)
    /\ WF_vars(SendPath)
    /\ WF_vars(Recv)
    /\ WF_vars(ChildExit)

\* ------------------------------------------------- path derivation, alone
\* The consumer at rx.recv() with one job in the channel, for every path of
\* at most MaxLen characters that a creation event can have reported.
StemInit ==
    \E p \in SeqsUpTo(Chars, MaxLen) :
       /\ mainPc = "idle"
       /\ senders = 1
       /\ unreadable = {}
       /\ exitCode = None
       /\ watchResult = "Ok"
       /\ nEvents = 1
       /\ lastKind = "Create"
       /\ pending = <<>>
       /\ queue = <<p>>
       /\ workerPc = "recv"
       /\ workerPanic = Nil
       /\ cur = None
       /\ outfile = None
       /\ inflight = 0
       /\ inputMissing = FALSE
       /\ lastStatus = None
       /\ files = {}
       /\ watcherLog = <<Info("File created, adding to queue", p)>>
       /\ workerLog = <<>>
       /\ reported = SeqToBag(<<p>>)
       /\ sent = <<p>>

StemNext == Recv \/ ChildExit

StemSpec == StemInit /\ [][StemNext]_vars

\* -------------------------------------------- consumer on a closed channel
\* consumer_thread at rx.recv() on a channel whose Senders have all been
\* dropped, with any paths still buffered: the input on which rx.recv()
\* returns Err once the buffer is drained.
ClosedChannelInit ==
    \E q \in SeqsUpTo(Paths, MaxJobs) :
       /\ mainPc = "idle"
       /\ senders = 0
       /\ unreadable = {}
       /\ exitCode = None
       /\ watchResult = "Ok"
       /\ nEvents = 1
       /\ lastKind = "Create"
       /\ pending = <<>>
       /\ queue = q
       /\ workerPc = "recv"
       /\ workerPanic = Nil
       /\ cur = None
       /\ outfile = None
       /\ inflight = 0
       /\ inputMissing = FALSE
       /\ lastStatus = None
       /\ files = {}
       /\ watcherLog = [i \in 1..Len(q) |->
                            Info("File created, adding to queue", q[i])]
       /\ workerLog = <<>>
       /\ reported = SeqToBag(q)
       /\ sent = q

ClosedChannelNext == Recv \/ ChildExit \/ RecvError

ClosedChannelSpec == ClosedChannelInit /\ [][ClosedChannelNext]_vars

\* ---------------------------------------------------------------- history
IsPrefix(s, t) == Len(s) <= Len(t) /\ SubSeq(t, 1, Len(s)) = s

Args(log, msg) ==
    LET hits == SelectSeq(log, LAMBDA e : e.msg = msg)
    IN  [i \in 1..Len(hits) |-> hits[i].arg]

\* Paths the consumer began processing, and paths it finished, in order.
Started == Args(workerLog, "Processing file")
Finished == Args(workerLog, "Done processing file")


\* ----------------------------------------------------------------- claims

\* C1: every path reported by a creation event is enqueued exactly once and
\* nothing else is: the paths accepted by the channel, together with those the
\* handler has still to send, are as a multiset the paths reported by
\* creation events; once the handler is done the two multisets are equal.
C1_OneJobPerReportedPath ==
    SeqToBag(sent) (+) SeqToBag(pending) = reported

\* C2: jobs are processed first in, first out: the paths the consumer began
\* processing are, in order, the first paths the channel accepted, the buffer
\* holds the rest in order, and a job is begun only after every job begun
\* before it has finished.
C2_FifoOrder ==
    /\ IsPrefix(Started, sent)
    /\ sent = Started \o queue
    /\ IsPrefix(Finished, Started)
    /\ Len(Started) <= Len(Finished) + 1

C2_Witness ==
    /\ Len(Finished) >= 2
    /\ Started[1] # Started[2]
    /\ queue # <<>>

\* C3: at most one ffmpeg child is in flight in every reachable state, and
\* one is in flight exactly while the consumer is inside Command::output().
C3_OneTranscodeAtATime ==
    /\ inflight <= 1
    /\ (inflight = 1) = (workerPc = "running")

C3_Witness ==
    /\ inflight = 1
    /\ Len(queue) >= 2

\* C4: under fair scheduling, with every ffmpeg child exiting, every job the
\* channel accepted is eventually dequeued and handed to the transcode step.
C4_EveryJobEventuallyProcessed ==
    \A i \in 1..MaxJobs : [](Len(sent) >= i => <>(Len(Started) >= i))

\* C5: when ffmpeg exits non-zero the failure is logged with the captured
\* stderr text, the job is logged as done, the consumer is back at rx.recv()
\* with the channel untouched, and there it takes the next job as soon as one
\* is buffered.
C5_FailureDoesNotStopWorker ==
    /\ [][(workerPc = "running" /\ workerPc' # "running"
              /\ ~lastStatus'[1].success)
          => /\ workerPc' = "recv"
             /\ workerPanic' = Nil
             /\ queue' = queue
             /\ workerLog' = workerLog \o
                   <<Error("Transcoding failed", lastStatus'[1].stderr),
                     Info("Done processing file", cur[1])>>]_vars
    /\ []((ProcessAlive /\ workerPc = "recv" /\ queue # <<>>) => ENABLED Recv)

C5_Witness ==
    /\ lastStatus # None
    /\ ~lastStatus[1].success
    /\ Len(Started) >= 2
    /\ workerPc = "running"

\* C6: a per-job error never ends the consumer thread: it does not panic,
\* whatever the path and whether or not ffmpeg can be launched.
C6_LaunchFailureContained ==
    workerPc # "dead" /\ workerPanic = Nil

\* C7: handling a result that is not a creation event sends nothing: the
\* channel, the paths to send, the send history and the handler's log are
\* unchanged, whatever paths the event carries.
C7_NonCreateProducesNoJob ==
    [][(nEvents' = nEvents + 1 /\ lastKind' # "Create")
       => /\ queue' = queue
          /\ pending' = <<>>
          /\ sent' = sent
          /\ reported' = reported
          /\ watcherLog' = watcherLog]_vars

C7_Witness ==
    /\ lastKind \in EventKinds \ {"Create"}
    /\ nEvents >= 2
    /\ queue # <<>>

\* C8: when subscribing to the input directory fails, the consumer is never
\* started and main never reaches its idle loop.
C8_WatchFailureIsFatal ==
    watchResult = "Err" => (workerPc = "unspawned" /\ mainPc # "idle")

\* C9: while ffmpeg runs on a job, its output argument is
\* {outputDir}/{stem}_transcoded.wav, where stem is the longest dot-free
\* prefix of the source path's file name (the whole name when it has no dot,
\* empty when it starts with a dot); nothing of the directory part appears.
C9_OutputPath ==
    workerPc = "running" =>
       LET name == FileName(cur[1])[1]
           out  == outfile[1]
           from == Len(OutputDir) + 2
           to   == Len(out) - Len(Suffix)
           stem == SubSeq(out, from, to)
       IN  /\ out = OutputDir \o <<"/">> \o stem \o Suffix
           /\ IsPrefix(stem, name)
           /\ \A i \in 1..Len(stem) : stem[i] \notin {".", "/"}
           /\ Len(stem) = Len(name) \/ name[Len(stem) + 1] = "."
           /\ (\A i \in 1..Len(name) : name[i] # ".") => stem = name
           /\ name[1] = "." => stem = <<>>

C9_Witness ==
    /\ workerPc = "running"
    /\ Cardinality({i \in 1..Len(cur[1]) : cur[1][i] = "."}) >= 2
    /\ \E i \in 1..Len(cur[1]) : cur[1][i] = "/"
    /\ Len(outfile[1]) > Len(OutputDir) + 1 + Len(Suffix)

\* C10: while the handler has a path to send, its send step can be taken in
\* every reachable state, whatever the consumer is doing and however long
\* the buffer is: the handler never waits for the consumer.
C10_SendNeverBlocks ==
    (ProcessAlive /\ pending # <<>>) => ENABLED SendPath

C10_Witness ==
    /\ pending # <<>>
    /\ workerPc = "running"
    /\ queue # <<>>


\* Paths handle_event offered to the channel, and those whose send failed.
Offered == Args(watcherLog, "File created, adding to queue")
SendErrors == Args(watcherLog, "Error sending path")

\* C11: with the Receiver gone, a send fails, the error is logged for that
\* path, the path is neither enqueued nor sent again, and the handler moves on
\* to the next path of the event and can take later events; each reported path
\* is offered to the channel once, and only accepted paths are ever received.
C11_FailedSendLoggedNotRetried ==
    /\ [][(workerPc = "dead" /\ watcherLog' # watcherLog)
          => /\ pending # <<>>
             /\ pending' = Tail(pending)
             /\ watcherLog' = watcherLog \o
                   <<Info("File created, adding to queue", Head(pending)),
                     Error("Error sending path", Head(pending))>>
             /\ queue' = queue
             /\ sent' = sent
             /\ workerLog' = workerLog
             /\ mainPc' = mainPc]_vars
    /\ [](workerPc = "dead"
          => /\ pending # <<>> => ENABLED SendPath
             /\ (pending = <<>> /\ watchResult = "Ok" /\ nEvents < MaxEvents)
                   => ENABLED EventArrives)
    /\ [](Len(Offered) + Len(pending) = BagCardinality(reported))
    /\ [](Len(SendErrors) + Len(sent) = Len(Offered) /\ Len(Started) <= Len(sent))

C11_Witness ==
    /\ workerPc = "dead"
    /\ Len(SendErrors) >= 2
    /\ nEvents >= 2


\* Outcomes the transcode step logged, in order.
Outcomes ==
    SelectSeq(workerLog, LAMBDA e : e.msg \in {"Transcoding successful, saved to",
                                               "Transcoding failed"})

\* C12: there is no retry: every accepted job is either still buffered or was
\* handed to the transcode step once, never both and never twice; transcode
\* calls never outnumber the jobs started nor those the jobs enqueued; when a
\* transcode completes, whatever its outcome, the job is dropped and the
\* buffer is left as it was; only a send of the watcher adds to the buffer.
C12_NoRetry ==
    /\ [](Len(Started) + Len(queue) = Len(sent))
    /\ [](Len(Outcomes) + inflight <= Len(Started) /\ Len(Started) <= Len(sent))
    /\ [][(workerPc = "running" /\ workerPc' # "running")
          => (queue' = queue /\ cur' = None /\ Started' = Started)]_vars
    /\ [][Len(queue') > Len(queue) => Len(sent') = Len(sent) + 1]_vars

C12_Witness ==
    /\ lastStatus # None
    /\ ~lastStatus[1].success
    /\ workerPc = "recv"
    /\ queue = <<>>
    /\ pending = <<>>
    /\ Len(Finished) >= 2


\* C13: every "Processing file" log line is followed by the "Done processing
\* file" line of the same path, whatever the outcome of the transcode step,
\* and before the next "Processing file" line: the finished paths are, in
\* order, the started ones, with at most the job inside the transcode call
\* still to finish.
C13_StartedThenFinished ==
    /\ IsPrefix(Finished, Started)
    /\ Len(Started) <= Len(Finished) + (IF workerPc = "running" THEN 1 ELSE 0)


\* Receive errors the consumer logged.
RecvErrors == Args(workerLog, "Error receiving file path.")

SameStem(p, q) == Stem(FileName(p)[1]) = Stem(FileName(q)[1])

\* Positions of the log lines of successful transcodes; the line after each
\* is the "Done processing file" line of the job it belongs to.
Successes ==
    {i \in 1..Len(workerLog) :
        workerLog[i].msg = "Transcoding successful, saved to"}

C16_NoValidationBeforeTranscode ==
    /\ [][(nEvents' = nEvents + 1 /\ lastKind' = "Create")
          => reported' = reported (+) SeqToBag(pending')]_vars
    /\ [][(pending # <<>> /\ pending' = Tail(pending) /\ workerPc # "dead")
          => queue' = Append(queue, Head(pending))]_vars
    /\ [][(workerPc = "running" /\ workerPc' # "running" /\ inputMissing)
          => /\ workerPc' = "recv"
             /\ files' = files
             /\ Len(workerLog') = Len(workerLog) + 2
             /\ workerLog'[Len(workerLog) + 1].msg = "Transcoding failed"
             /\ workerLog'[Len(workerLog) + 2] =
                   Info("Done processing file", cur[1])]_vars
    /\ []((workerPc = "recv" /\ queue # <<>>) => ENABLED Recv)

C16_Witness ==
    /\ inputMissing
    /\ lastStatus # None
    /\ workerPc = "recv"
    /\ workerLog[Len(workerLog) - 1].msg = "Transcoding failed"
    /\ workerLog[Len(workerLog)].arg \in unreadable
    /\ queue # <<>>


\* C17: once the consumer thread has panicked, it stays dead while the process
\* and the watcher live on: no job is received or transcoded any more, the
\* buffered jobs stay where they are, nothing is enqueued, every send the
\* handler makes fails and is logged, and the handler can still take its
\* steps.
C17_DeadConsumerIsFinal ==
    /\ [][workerPc = "dead"
          => /\ workerPc' = "dead"
             /\ mainPc' = mainPc
             /\ queue' = queue
             /\ sent' = sent
             /\ workerLog' = workerLog
             /\ inflight' = inflight
             /\ files' = files
             /\ watcherLog' # watcherLog
                   => Len(SendErrors') = Len(SendErrors) + 1]_vars
    /\ [](workerPc = "dead"
          => /\ ProcessAlive /\ TxAlive
             /\ workerPanic # Nil
             /\ inflight = 0
             /\ Len(Started) = Len(Finished) + 1
             /\ pending # <<>> => ENABLED SendPath)

C17_Witness ==
    /\ workerPc = "dead"
    /\ workerPanic = "Failed to execute ffmpeg"
    /\ queue # <<>>
    /\ SendErrors # <<>>
    /\ nEvents >= 2


C19_ReceiveErrorUnreachable ==
    /\ workerPc # "unspawned" => (ProcessAlive /\ senders = 1)
    /\ (ProcessAlive /\ ReadyToRecv(workerPc)) => (TxAlive /\ ~ENABLED RecvError)
    /\ RecvErrors = <<>>
    /\ workerPanic # Nil => workerPanic # "Error receiving file path."

C19_Witness ==
    /\ workerPc = "recv"
    /\ queue = <<>>
    /\ pending = <<>>
    /\ Len(Finished) >= 1
    /\ mainPc = "idle"

=============================================================================
